---- MODULE Spec2Model ----
(***************************************************************************)
(* A model of mueller-franzes/MST:                                         *)
(*   mst/models/base_model.py          VeryBasicModel, BasicClassifier     *)
(*   mst/data/datasets/dataset_3d_duke.py   DUKE_Dataset3D                 *)
(*                                                                         *)
(* Three specifications share the module:                                  *)
(*   SpecTrain    the per-split step counters, metric accumulators and     *)
(*                the shared batch_size of BasicClassifier;                *)
(*   SpecWeights  the checkpoint pointer file, load_pretrained and         *)
(*                load_weights;                                            *)
(*   SpecData     the split loader, the dataset's pointer list and the     *)
(*                transform pipeline.                                      *)
(***************************************************************************)
EXTENDS Integers, Sequences, FiniteSets, TLC

VARIABLES
    \* ---- VeryBasicModel / BasicClassifier ----
    step_train,     \* self._step_train
    step_val,       \* self._step_val
    step_test,      \* self._step_test
    acc,            \* self.acc : ModuleDict key -> Accuracy state
    auc_roc,        \* self.auc_roc : ModuleDict key -> AUROC state
    batch_size,     \* self.batch_size, Unset until the first _step
    logged,         \* the self.log(...) calls of the most recent handler
    lastCall,       \* history: the most recent handler call and its outcome
    calls,          \* history: invocations of each split's step function
    epochBatches,   \* history: batches that reached the metric update since
                    \*          the split's previous epoch end
    lastStep,       \* history: split and batch size of the most recent step
    flushed,        \* history: the split had an epoch end that logged the
                    \*          metrics of at least one batch
    \* ---- checkpoints and weights ----
    state_dict,     \* self.state_dict(): parameter name -> value
    pointer,        \* directory -> content of its best_checkpoint.json
    handed,         \* the mapping the last load_weights gave load_state_dict
    wCall,          \* history: the most recent checkpoint/weights call
    savedPath,      \* history: directory -> best_model_path last saved there
    \* ---- DUKE_Dataset3D ----
    manifest,       \* the rows of preprocessed_crop/splits/split.csv
    dataset,        \* the constructed dataset: df, item_pointers, transform
    dCall,          \* the most recent dataset/split-loader call with what
                    \* it returned or raised
    prevSplit       \* history: the load_split call before the most recent one

trainVars == <<step_train, step_val, step_test, acc, auc_roc, batch_size,
               logged, lastCall, calls, epochBatches, lastStep, flushed>>

weightVars == <<state_dict, pointer, handed, wCall, savedPath>>

dataVars == <<manifest, dataset, dCall, prevSplit>>

vars == <<trainVars, weightVars, dataVars>>

(***************************************************************************)
(* Bounds                                                                  *)
(***************************************************************************)
MaxSteps == 3      \* step-function invocations in one behaviour (all splits)
MaxBatch == 2      \* largest batch size

\* an attribute that was never assigned; an assigned one is <<value>>
Unset == <<>>
NoCall == [op |-> "none"]

(***************************************************************************)
(* Training wrapper                                                        *)
(***************************************************************************)
States == {"train", "val", "test"}

\* the ModuleDict keys: 'train' is not allowed as a key, so state + "_"
Key(state) ==
    CASE state = "train" -> "train_"
      [] state = "val"   -> "val_"
      [] state = "test"  -> "test_"

MetricKeys == {Key(s) : s \in States}

\* A batch: batch['target'].shape[0] samples; `correct` of them are the ones
\* the forward pass classifies as their target.
Batches == {b \in [size : 1..MaxBatch, correct : 0..MaxBatch] : b.correct <= b.size}

\* Accuracy(): the accumulator counts correct and seen samples
AccuracyInit == [correct |-> 0, total |-> 0]

AccuracyUpdate(m, batch) ==
    [correct |-> m.correct + batch.correct, total |-> m.total + batch.size]

\* Accuracy.compute(): the share of correct samples, in percent; 0 on an
\* empty accumulator
AccuracyCompute(m) ==
    IF m.total = 0 THEN 0 ELSE (100 * m.correct) \div m.total

\* AUROC(): the accumulator is the list of (pred, target) batches
AUROCInit == <<>>

AUROCUpdate(m, batch) == Append(m, batch)

\* AUROC.compute(): a function of the whole list of accumulated batches; the
\* value is represented by the (size, correct) profile it is computed from
AUROCCompute(m) == [i \in 1..Len(m) |-> <<m[i].size, m[i].correct>>]

\* compute_loss(pred, target): represented by the misclassified samples
compute_loss(batch) == batch.size - batch.correct

TotalCalls == calls["train"] + calls["val"] + calls["test"]

\* self.batch_size assigned only once the forward pass has returned
BatchSizeAfterForward(batch, fwd) ==
    IF fwd THEN <<batch.size>> ELSE batch_size

\* batch_size = target.shape[0]; self.batch_size = batch_size, the first
\* statements of _step, ahead of the forward pass
AssignBatchSize(batch, fwd) == <<batch.size>>

\* BasicClassifier._step(batch, batch_idx, state, step); `fwd` is whether the
\* forward pass self(**batch) returns (TRUE) or raises (FALSE)
Step(batch, state, step, fwd) ==
    /\ batch_size' = AssignBatchSize(batch, fwd)
    /\ IF fwd
       THEN /\ acc' = [acc EXCEPT ![Key(state)] = AccuracyUpdate(@, batch)]
            /\ auc_roc' = [auc_roc EXCEPT ![Key(state)] = AUROCUpdate(@, batch)]
            /\ logged' = <<[key |-> <<state, "loss">>,
                            value |-> compute_loss(batch),
                            batch_size |-> batch.size]>>
            /\ epochBatches' = [epochBatches EXCEPT ![state] = Append(@, batch)]
       ELSE /\ UNCHANGED <<acc, auc_roc, epochBatches>>
            /\ logged' = <<>>
    /\ lastCall' = [op |-> "step", state |-> state, step |-> step,
                    outcome |-> IF fwd THEN "returned" ELSE "raised"]
    /\ calls' = [calls EXCEPT ![state] = @ + 1]
    /\ lastStep' = [state |-> state, size |-> batch.size]
    /\ UNCHANGED <<flushed, weightVars, dataVars>>

\* one iteration of the loop of BasicClassifier._epoch_end over
\* [("ACC", acc), ("AUC_ROC", auc_roc)]: the logged entry
EpochLog(state, name, value) ==
    [key |-> <<state, name>>, value |-> value, batch_size |-> batch_size[1]]

\* value.reset() left out for the AUROC accumulator
ResetAUROCSkipped(state) == auc_roc

\* value.reset() for the AUROC accumulator of the split
ResetAUROC(state) == [auc_roc EXCEPT ![Key(state)] = AUROCInit]

\* value.reset() applied to the Accuracy accumulators of all splits
ResetAccuracyAll(state) == [k \in MetricKeys |-> AccuracyInit]

\* value.reset() for the Accuracy accumulator of the split
ResetAccuracy(state) == [acc EXCEPT ![Key(state)] = AccuracyInit]

\* BasicClassifier._epoch_end(state)
EpochEnd(state) ==
    /\ IF batch_size = Unset
       THEN \* self.batch_size does not exist: AttributeError while the
            \* arguments of the first self.log are evaluated
            /\ UNCHANGED <<acc, auc_roc>>
            /\ logged' = <<>>
            /\ lastCall' = [op |-> "epoch_end", state |-> state,
                            outcome |-> "AttributeError",
                            batches |-> epochBatches[state],
                            earlier |-> flushed[state]]
            /\ UNCHANGED flushed
       ELSE /\ logged' =
                 << EpochLog(state, "ACC", AccuracyCompute(acc[Key(state)])),
                    EpochLog(state, "AUC_ROC", AUROCCompute(auc_roc[Key(state)])) >>
            /\ acc' = ResetAccuracy(state)
            /\ auc_roc' = ResetAUROC(state)
            /\ lastCall' = [op |-> "epoch_end", state |-> state,
                            outcome |-> "returned",
                            batches |-> epochBatches[state],
                            earlier |-> flushed[state]]
            /\ flushed' = [flushed EXCEPT
                              ![state] = @ \/ epochBatches[state] # <<>>]
    /\ epochBatches' = [epochBatches EXCEPT ![state] = <<>>]
    /\ UNCHANGED <<step_train, step_val, step_test, batch_size, calls, lastStep>>
    /\ UNCHANGED <<weightVars, dataVars>>

\* training_step handing _step the counter as it was before the increment
training_step_stale(batch, fwd) ==
    /\ TotalCalls < MaxSteps
    /\ step_train' = step_train + 1
    /\ Step(batch, "train", step_train, fwd)
    /\ UNCHANGED <<step_val, step_test>>

training_step(batch, fwd) ==
    /\ TotalCalls < MaxSteps
    /\ step_train' = step_train + 1
    /\ Step(batch, "train", step_train + 1, fwd)
    /\ UNCHANGED <<step_val, step_test>>

validation_step(batch, fwd) ==
    /\ TotalCalls < MaxSteps
    /\ step_val' = step_val + 1
    /\ Step(batch, "val", step_val + 1, fwd)
    /\ UNCHANGED <<step_train, step_test>>

test_step(batch, fwd) ==
    /\ TotalCalls < MaxSteps
    /\ step_test' = step_test + 1
    /\ Step(batch, "test", step_test + 1, fwd)
    /\ UNCHANGED <<step_train, step_val>>

on_train_epoch_end ==
    /\ EpochEnd("train")

on_validation_epoch_end ==
    /\ EpochEnd("val")

on_test_epoch_end ==
    /\ EpochEnd("test")

NextTrain ==
    \/ \E b \in Batches, fwd \in BOOLEAN : training_step(b, fwd)
    \/ \E b \in Batches, fwd \in BOOLEAN : validation_step(b, fwd)
    \/ \E b \in Batches, fwd \in BOOLEAN : test_step(b, fwd)
    \/ on_train_epoch_end
    \/ on_validation_epoch_end
    \/ on_test_epoch_end


(***************************************************************************)
(* Checkpoint pointer file and weights                                     *)
(*                                                                         *)
(* A path is the sequence of its components; an absolute path starts with  *)
(* the component "/".  The string Path(p).name is the one-component        *)
(* relative path, or the empty path when p has no name.                    *)
(***************************************************************************)
IsAbsolute(p) == p # <<>> /\ p[1] = "/"

\* pathlib: Path(p).name
PathName(p) == IF p = <<>> \/ p = <<"/">> THEN <<>> ELSE <<p[Len(p)]>>

\* pathlib: Path(p).parent
PathParent(p) == IF p = <<>> \/ p = <<"/">> THEN p ELSE SubSeq(p, 1, Len(p) - 1)

\* pathlib: Path(d) / r -- an absolute right operand replaces the left one
PathJoin(d, r) == IF IsAbsolute(r) THEN r ELSE d \o r

\* the directories that exist, and the checkpoint files torch.load finds in
\* them, each with its "state_dict"
Dirs == { <<"/", "runs">>, <<"/", "runs", "v1">> }

ModelKeys == {"w", "b"}

CheckpointFiles ==
    ( <<"/", "runs", "a.ckpt">>       :> [state_dict |-> [w |-> 1, b |-> 1]] )
 @@ ( <<"/", "runs", "v1", "a.ckpt">> :> [state_dict |-> [w |-> 2, b |-> 2, head |-> 2]] )
 @@ ( <<"/", "old", "a.ckpt">>        :> [state_dict |-> [w |-> 3]] )

\* the best_model_path arguments: a file of the directory, of a
\* subdirectory, of another directory, a relative path, a file that is not there
BestModelPaths ==
    DOMAIN CheckpointFiles \cup { <<"/", "runs", "b.ckpt">>, <<"a.ckpt">> }

\* the 'filter' keyword: absent, or a predicate given by the keys it accepts
Filters ==
    { [kind |-> "default"] } \cup
    { [kind |-> "custom", keys |-> K] : K \in {ModelKeys, {"w", "head"}} }

NoFile == <<>>

\* a pointer file holding the whole best_model_path instead of its name
PointerRecordFullPath(best_model_path) == [best_model_epoch |-> best_model_path]

\* save_best_checkpoint: {'best_model_epoch': Path(best_model_path).name}
PointerRecord(best_model_path) == [best_model_epoch |-> PathName(best_model_path)]

\* save_best_checkpoint(path_checkpoint_dir, best_model_path): json.dump
\* into path_checkpoint_dir/best_checkpoint.json
save_best_checkpoint(path_checkpoint_dir, best_model_path) ==
    /\ pointer' = [pointer EXCEPT
                      ![path_checkpoint_dir] = <<PointerRecord(best_model_path)>>]
    /\ savedPath' = [savedPath EXCEPT ![path_checkpoint_dir] = <<best_model_path>>]
    /\ wCall' = [op |-> "save_best_checkpoint", path |-> path_checkpoint_dir,
                 outcome |-> "returned"]
    /\ UNCHANGED <<state_dict, handed, trainVars, dataVars>>

\* _get_best_checkpoint_path(path_checkpoint_dir), where the pointer file is
\* there: Path(path_checkpoint_dir) / Path(json.load(f)['best_model_epoch'])
GetBestCheckpointPath(path_checkpoint_dir) ==
    PathJoin(path_checkpoint_dir, pointer[path_checkpoint_dir][1].best_model_epoch)

\* the default of kwargs.get('filter', lambda key: key in pretrained_weights)
DefaultFilter(pretrained_weights, key) == key \in DOMAIN pretrained_weights

ApplyFilter(filter, pretrained_weights, key) ==
    IF filter.kind = "default"
    THEN DefaultFilter(pretrained_weights, key)
    ELSE key \in filter.keys

\* dict.update: the right operand's entries win
DictUpdate(d, e) ==
    [k \in DOMAIN d \cup DOMAIN e |-> IF k \in DOMAIN e THEN e[k] ELSE d[k]]

\* load_weights(pretrained_weights, strict, filter=...) on a model whose
\* state_dict() is sd: the mapping handed to load_state_dict, the parameters
\* afterwards and the outcome.  load_state_dict copies every entry whose key
\* the model has, and raises under strict when a key is unexpected.
LoadWeightsResult(sd, pretrained_weights, strict, filter) ==
    LET kept == { k \in DOMAIN pretrained_weights :
                     ApplyFilter(filter, pretrained_weights, k) }
        filtered == [k \in kept |-> pretrained_weights[k]]
        init_weights == DictUpdate(sd, filtered)
        unexpected == DOMAIN init_weights \ DOMAIN sd
    IN  [ handed |-> <<init_weights>>,
          state_dict |-> [k \in DOMAIN sd |-> init_weights[k]],
          outcome |-> IF strict /\ unexpected # {}
                      THEN "RuntimeError" ELSE "returned" ]

\* load_pretrained(checkpoint_path, strict=..., filter=...) on a model whose
\* state_dict() is sd
LoadPretrainedResult(sd, checkpoint_path, strict, filter) ==
    IF checkpoint_path \in Dirs /\ pointer[checkpoint_path] = NoFile
    THEN [ handed |-> handed, state_dict |-> sd, resolved |-> <<>>,
           outcome |-> "FileNotFoundError" ]
    ELSE LET resolved == IF checkpoint_path \in Dirs
                         THEN GetBestCheckpointPath(checkpoint_path)
                         ELSE checkpoint_path
         IN  IF resolved \notin DOMAIN CheckpointFiles
             THEN [ handed |-> handed, state_dict |-> sd, resolved |-> <<resolved>>,
                    outcome |-> "FileNotFoundError" ]
             ELSE LET r == LoadWeightsResult(sd, CheckpointFiles[resolved].state_dict,
                                             strict, filter)
                  IN  [ handed |-> r.handed, state_dict |-> r.state_dict,
                        resolved |-> <<resolved>>, outcome |-> r.outcome ]

load_pretrained(checkpoint_path, strict, filter) ==
    LET r == LoadPretrainedResult(state_dict, checkpoint_path, strict, filter)
    IN  /\ state_dict' = r.state_dict
        /\ handed' = r.handed
        /\ wCall' = [op |-> "load_pretrained", path |-> checkpoint_path,
                     strict |-> strict, filter |-> filter, before |-> state_dict,
                     resolved |-> r.resolved, outcome |-> r.outcome]
        /\ UNCHANGED <<pointer, savedPath, trainVars, dataVars>>

load_weights(pretrained_weights, strict, filter) ==
    LET r == LoadWeightsResult(state_dict, pretrained_weights, strict, filter)
    IN  /\ state_dict' = r.state_dict
        /\ handed' = r.handed
        /\ wCall' = [op |-> "load_weights", pretrained |-> pretrained_weights,
                     strict |-> strict, filter |-> filter, before |-> state_dict,
                     outcome |-> r.outcome]
        /\ UNCHANGED <<pointer, savedPath, trainVars, dataVars>>

PretrainedDicts == { CheckpointFiles[f].state_dict : f \in DOMAIN CheckpointFiles }

NextWeights ==
    \/ \E d \in Dirs, p \in BestModelPaths : save_best_checkpoint(d, p)
    \/ \E c \in Dirs \cup DOMAIN CheckpointFiles, strict \in BOOLEAN, f \in Filters :
          load_pretrained(c, strict, f)
    \/ \E w \in PretrainedDicts, strict \in BOOLEAN, f \in Filters :
          load_weights(w, strict, f)

(***************************************************************************)
(* Split loader, dataset and transform pipeline                            *)
(***************************************************************************)
MaxRows == 3       \* rows of the split manifest

\* Python's None where the value is a string, and where it is a number or a
\* pair of numbers (then the value v is held as <<v>> or as the pair)
None == "None"
Absent == <<>>

Folds == {0, 1}
Splits == {"train", "val"}

\* the i-th row of the manifest (i counts from 1): UID identifies the row,
\* and the label alternates, so that both columns tell the rows apart
RowsAt(i) ==
    [UID : {100 + i}, Fold : Folds, Split : Splits, Malignant : {i % 2}]

\* the manifests of up to MaxRows rows
RECURSIVE ManifestsOfLen(_)
ManifestsOfLen(n) ==
    IF n = 0 THEN { <<>> }
    ELSE { Append(m, r) : m \in ManifestsOfLen(n - 1), r \in RowsAt(n) }

Manifests == UNION { ManifestsOfLen(n) : n \in 0..MaxRows }

\* the fraction argument: absent, or the ratio <<numerator, denominator>>
Fractions == { Absent, <<1, 2>>, <<1, 1>>, <<3, 2>> }

\* pd.read_csv: a frame is the sequence of its rows, each with the label of
\* the index (RangeIndex 0, 1, ...) and, after reset_index, the old label in
\* the column 'index'
ReadCsv(m) ==
    [i \in 1..Len(m) |-> [label |-> i - 1, index |-> Absent, row |-> m[i]]]

\* df[df['Fold'] >= fold]
FoldFilterAtLeast(df, fold) == SelectSeq(df, LAMBDA e : e.row.Fold >= fold)

\* df[df['Fold'] == fold]
FoldFilter(df, fold) == SelectSeq(df, LAMBDA e : e.row.Fold = fold)

\* df[df['Split'] == split]
SplitFilter(df, split) == SelectSeq(df, LAMBDA e : e.row.Split = split)

\* Python's round(num * n / den): to the nearest integer, a tie to the even one
PyRound(p, den) ==
    LET q == p \div den
        r == p % den
    IN  IF 2 * r < den THEN q
        ELSE IF 2 * r > den THEN q + 1
        ELSE IF q % 2 = 0 THEN q ELSE q + 1

\* the generator behind random_state: a congruential generator stands for
\* the Mersenne twister; what matters is that the stream is a function of
\* the seed alone
NextRandom(x) == (5 * x + 2) % 16

Swap(perm, i, j) ==
    [k \in DOMAIN perm |-> IF k = i THEN perm[j] ELSE IF k = j THEN perm[i] ELSE perm[k]]

\* RandomState.permutation(n): the shuffle  for i in reversed(range(1, n)):
\* j = random_interval(i); swap(x[i], x[j]), positions counted from 0
RECURSIVE ShuffleFrom(_, _, _)
ShuffleFrom(perm, i, x) ==
    IF i < 1 THEN perm
    ELSE LET y == NextRandom(x)
             j == y % (i + 1)
         IN  ShuffleFrom(Swap(perm, i + 1, j + 1), i - 1, y)

Permutation(n, seed) == ShuffleFrom([k \in 1..n |-> k - 1], n - 1, seed)

\* a generator seeded once and shared by the calls: the first call draws from
\* the seed, a later one from the advanced stream
SampleSeedShared == IF dCall.op = "none" THEN 0 ELSE 1

\* random_state=0
SampleSeed == 0

\* df.sample(frac=fraction, random_state=0): round(frac * len(df)) rows at
\* the first positions of the seeded permutation, in that order
Sample(df, fraction) ==
    LET size == PyRound(fraction[1] * Len(df), fraction[2])
        perm == Permutation(Len(df), SampleSeed)
    IN  [i \in 1..size |-> df[perm[i] + 1]]

\* reset_index(): the old labels move to the column 'index', the new labels
\* are 0, 1, ...
ResetIndex(df) ==
    [i \in 1..Len(df) |-> [label |-> i - 1, index |-> <<df[i].label>>, row |-> df[i].row]]

\* sort_index(): the rows ordered by label (selection sort on unique labels)
RECURSIVE SortIndex(_)
SortIndex(df) ==
    IF df = <<>> THEN <<>>
    ELSE LET lo == CHOOSE i \in 1..Len(df) : \A j \in 1..Len(df) : df[i].label <= df[j].label
         IN  <<df[lo]>> \o SortIndex([k \in 1..(Len(df) - 1) |->
                                          IF k < lo THEN df[k] ELSE df[k + 1]])

\* df.sample(...).sort_index().reset_index(): the sample put back in row order
SampleFrameSorted(df, fraction) == ResetIndex(SortIndex(Sample(df, fraction)))

\* df.sample(frac=fraction, random_state=0).reset_index()
SampleFrame(df, fraction) == ResetIndex(Sample(df, fraction))

\* load_split(filepath_or_buffer, fold, split, fraction) on the manifest m:
\* the frame returned, or the error raised.  sample() refuses frac > 1
\* without replacement.
LoadSplitResult(m, fold, split, fraction) ==
    LET df0 == ReadCsv(m)
        df1 == FoldFilter(df0, fold)
        df2 == IF split # None THEN SplitFilter(df1, split) ELSE df1
    IN  IF fraction = Absent
        THEN [outcome |-> "returned", df |-> df2]
        ELSE IF fraction[1] > fraction[2]
             THEN [outcome |-> "ValueError", df |-> <<>>]
             ELSE [outcome |-> "returned", df |-> SampleFrame(df2, fraction)]

\* the classmethod called on its own
load_split(fold, split, fraction) ==
    LET r == LoadSplitResult(manifest, fold, split, fraction)
    IN  /\ dCall' = [op |-> "load_split", fold |-> fold, split |-> split,
                     fraction |-> fraction, outcome |-> r.outcome, df |-> r.df]
        /\ prevSplit' = dCall
        /\ UNCHANGED <<manifest, dataset, trainVars, weightVars>>

\* the constructor flags: each optional stage on or off, and a custom
\* transform or none
Configs ==
    [ transform : {None, "custom"}, image_resize : BOOLEAN, resample : BOOLEAN,
      flip : BOOLEAN, random_rotate : BOOLEAN, image_crop : BOOLEAN,
      random_center : BOOLEAN, noise : BOOLEAN, to_tensor : BOOLEAN ]

Identity == "Lambda"

\* the crop/pad stage carries its anchor policy
CropOrPad(random_center) ==
    IF random_center THEN "CropOrPad(random_center)" ELSE "CropOrPad"

\* the stage list with ZNormalization ahead of CropOrPad
ComposeNormalizeFirst(cfg) ==
    << IF cfg.image_resize THEN "Resize" ELSE Identity,
       IF cfg.resample THEN "Resample" ELSE Identity,
       "Flip",
       "ZNormalization",
       IF cfg.image_crop THEN CropOrPad(cfg.random_center) ELSE Identity,
       IF cfg.random_rotate THEN "RandomAffine" ELSE Identity,
       IF cfg.flip THEN "RandomFlip" ELSE Identity,
       IF cfg.noise THEN "RandomNegate" ELSE Identity,
       IF cfg.noise THEN "RandomNoise" ELSE Identity,
       IF cfg.to_tensor THEN "ImageOrSubjectToTensor" ELSE Identity >>

\* tio.Compose([...]) of __init__ when transform is None
Compose(cfg) ==
    << IF cfg.image_resize THEN "Resize" ELSE Identity,
       IF cfg.resample THEN "Resample" ELSE Identity,
       "Flip",
       IF cfg.image_crop THEN CropOrPad(cfg.random_center) ELSE Identity,
       "ZNormalization",
       IF cfg.random_rotate THEN "RandomAffine" ELSE Identity,
       IF cfg.flip THEN "RandomFlip" ELSE Identity,
       IF cfg.noise THEN "RandomNegate" ELSE Identity,
       IF cfg.noise THEN "RandomNoise" ELSE Identity,
       IF cfg.to_tensor THEN "ImageOrSubjectToTensor" ELSE Identity >>

\* self.transform
Transform(cfg) == IF cfg.transform = None THEN Compose(cfg) ELSE <<cfg.transform>>

\* self.transform(img): the stages act in list order; an image is the file it
\* was read from and the stages that have acted on it, tio.Lambda(lambda x: x)
\* leaving it as it is
RECURSIVE ApplyTransform(_, _)
ApplyTransform(img, stages) ==
    IF stages = <<>> THEN img
    ELSE ApplyTransform(
            IF stages[1] = Identity THEN img
            ELSE [img EXCEPT !.applied = Append(@, stages[1])],
            Tail(stages))

\* self.df.index.tolist()
ItemPointers(df) == [i \in 1..Len(df) |-> df[i].label]

NoDataset == [built |-> FALSE]

\* DUKE_Dataset3D(fold=..., split=..., fraction=..., <flags>)
DatasetInit(fold, split, fraction, cfg) ==
    LET r == LoadSplitResult(manifest, fold, split, fraction)
    IN  /\ IF r.outcome = "returned"
           THEN dataset' = [built |-> TRUE, fold |-> fold, split |-> split,
                            fraction |-> fraction, cfg |-> cfg,
                            transform |-> Transform(cfg), df |-> r.df,
                            item_pointers |-> ItemPointers(r.df)]
           ELSE UNCHANGED dataset
        /\ dCall' = [op |-> "__init__", outcome |-> r.outcome]
        /\ UNCHANGED <<manifest, prevSplit, trainVars, weightVars>>

\* df.loc[idx]: the row whose label is idx
Loc(df, idx) == df[CHOOSE i \in 1..Len(df) : df[i].label = idx]

\* __len__
DatasetLen == Len(dataset.item_pointers)

\* __getitem__(index), index counted from 0
GetItem(index) ==
    /\ dataset.built
    /\ IF index >= DatasetLen
       THEN dCall' = [op |-> "__getitem__", index |-> index,
                      outcome |-> "IndexError"]
       ELSE LET idx == dataset.item_pointers[index + 1]
                item == Loc(dataset.df, idx)
                uid == item.row.UID
                img == [path |-> <<"Breast_MRI", uid, "sub.nii.gz">>, applied |-> <<>>]
            IN  dCall' = [op |-> "__getitem__", index |-> index,
                          outcome |-> "returned",
                          sample |-> [uid |-> uid,
                                      source |-> ApplyTransform(img, dataset.transform),
                                      target |-> item.row.Malignant]]
    /\ UNCHANGED <<manifest, dataset, prevSplit, trainVars, weightVars>>

(***************************************************************************)
(* Specifications                                                          *)
(***************************************************************************)
\* the model as constructed, no checkpoint pointer saved, no dataset built
Init ==
    /\ step_train = -1
    /\ step_val = -1
    /\ step_test = -1
    /\ acc = [k \in MetricKeys |-> AccuracyInit]
    /\ auc_roc = [k \in MetricKeys |-> AUROCInit]
    /\ batch_size = Unset
    /\ logged = <<>>
    /\ lastCall = NoCall
    /\ calls = [s \in States |-> 0]
    /\ epochBatches = [s \in States |-> <<>>]
    /\ lastStep = [state |-> "none", size |-> 0]
    /\ flushed = [s \in States |-> FALSE]
    /\ state_dict = [k \in ModelKeys |-> 0]
    /\ pointer = [d \in Dirs |-> NoFile]
    /\ handed = <<>>
    /\ wCall = NoCall
    /\ savedPath = [d \in Dirs |-> <<>>]
    /\ manifest = <<>>
    /\ dataset = NoDataset
    /\ dCall = NoCall
    /\ prevSplit = NoCall

SpecTrain == Init /\ [][NextTrain]_vars

SpecWeights == Init /\ [][NextWeights]_vars

InitSplit ==
    /\ step_train = -1
    /\ step_val = -1
    /\ step_test = -1
    /\ acc = [k \in MetricKeys |-> AccuracyInit]
    /\ auc_roc = [k \in MetricKeys |-> AUROCInit]
    /\ batch_size = Unset
    /\ logged = <<>>
    /\ lastCall = NoCall
    /\ calls = [s \in States |-> 0]
    /\ epochBatches = [s \in States |-> <<>>]
    /\ lastStep = [state |-> "none", size |-> 0]
    /\ flushed = [s \in States |-> FALSE]
    /\ state_dict = [k \in ModelKeys |-> 0]
    /\ pointer = [d \in Dirs |-> NoFile]
    /\ handed = <<>>
    /\ wCall = NoCall
    /\ savedPath = [d \in Dirs |-> <<>>]
    /\ manifest \in Manifests
    /\ dataset = NoDataset
    /\ dCall = NoCall
    /\ prevSplit = NoCall

NextSplit ==
    \E fold \in Folds, split \in Splits \cup {None}, fraction \in Fractions :
        load_split(fold, split, fraction)

SpecSplit == InitSplit /\ [][NextSplit]_vars

InitDataset ==
    /\ step_train = -1
    /\ step_val = -1
    /\ step_test = -1
    /\ acc = [k \in MetricKeys |-> AccuracyInit]
    /\ auc_roc = [k \in MetricKeys |-> AUROCInit]
    /\ batch_size = Unset
    /\ logged = <<>>
    /\ lastCall = NoCall
    /\ calls = [s \in States |-> 0]
    /\ epochBatches = [s \in States |-> <<>>]
    /\ lastStep = [state |-> "none", size |-> 0]
    /\ flushed = [s \in States |-> FALSE]
    /\ state_dict = [k \in ModelKeys |-> 0]
    /\ pointer = [d \in Dirs |-> NoFile]
    /\ handed = <<>>
    /\ wCall = NoCall
    /\ savedPath = [d \in Dirs |-> <<>>]
    /\ manifest \in Manifests
    /\ dataset = NoDataset
    /\ dCall = NoCall
    /\ prevSplit = NoCall

\* the flags of an evaluation and of a training dataset
DefaultConfig ==
    [ transform |-> None, image_resize |-> FALSE, resample |-> FALSE,
      flip |-> FALSE, random_rotate |-> FALSE, image_crop |-> TRUE,
      random_center |-> FALSE, noise |-> FALSE, to_tensor |-> TRUE ]

AugmentConfig ==
    [ transform |-> None, image_resize |-> FALSE, resample |-> FALSE,
      flip |-> TRUE, random_rotate |-> TRUE, image_crop |-> TRUE,
      random_center |-> TRUE, noise |-> TRUE, to_tensor |-> TRUE ]

NextDataset ==
    \/ \E fold \in Folds, split \in Splits \cup {None}, fraction \in Fractions,
          cfg \in {DefaultConfig, AugmentConfig} :
          DatasetInit(fold, split, fraction, cfg)
    \/ \E index \in 0..MaxRows : GetItem(index)

SpecDataset == InitDataset /\ [][NextDataset]_vars

\* one manifest and the whole fold, every combination of the flags
PipelineManifest ==
    << [UID |-> 101, Fold |-> 0, Split |-> "train", Malignant |-> 1],
       [UID |-> 102, Fold |-> 0, Split |-> "val", Malignant |-> 0] >>

InitPipeline ==
    /\ step_train = -1
    /\ step_val = -1
    /\ step_test = -1
    /\ acc = [k \in MetricKeys |-> AccuracyInit]
    /\ auc_roc = [k \in MetricKeys |-> AUROCInit]
    /\ batch_size = Unset
    /\ logged = <<>>
    /\ lastCall = NoCall
    /\ calls = [s \in States |-> 0]
    /\ epochBatches = [s \in States |-> <<>>]
    /\ lastStep = [state |-> "none", size |-> 0]
    /\ flushed = [s \in States |-> FALSE]
    /\ state_dict = [k \in ModelKeys |-> 0]
    /\ pointer = [d \in Dirs |-> NoFile]
    /\ handed = <<>>
    /\ wCall = NoCall
    /\ savedPath = [d \in Dirs |-> <<>>]
    /\ manifest = PipelineManifest
    /\ dataset = NoDataset
    /\ dCall = NoCall
    /\ prevSplit = NoCall

NextPipeline ==
    \/ \E cfg \in Configs : DatasetInit(0, None, Absent, cfg)
    \/ \E index \in 0..MaxRows : GetItem(index)

SpecPipeline == InitPipeline /\ [][NextPipeline]_vars

(***************************************************************************)
(* Claims about the training wrapper (checked under SpecTrain)             *)
(***************************************************************************)
StepCounter(state) ==
    CASE state = "train" -> step_train
      [] state = "val"   -> step_val
      [] state = "test"  -> step_test

RECURSIVE CorrectOf(_), TotalOf(_)
CorrectOf(bs) == IF bs = <<>> THEN 0 ELSE bs[1].correct + CorrectOf(Tail(bs))
TotalOf(bs) == IF bs = <<>> THEN 0 ELSE bs[1].size + TotalOf(Tail(bs))

\* the Accuracy value of a list of batches, computed from the batches alone
AccuracyOfBatches(bs) ==
    IF TotalOf(bs) = 0 THEN 0 ELSE (100 * CorrectOf(bs)) \div TotalOf(bs)

\* C1: every split's step counter is -1 plus the number of invocations of that
\* split's step function, the k-th invocation hands step id k-1 to _step, and
\* no step of the model (a step or an epoch end of any split) lowers a counter.
C1_StepIds ==
    /\ [](\A s \in States : StepCounter(s) = calls[s] - 1)
    /\ [](lastCall.op = "step" => lastCall.step = calls[lastCall.state] - 1)
    /\ [][ /\ step_train' >= step_train
           /\ step_val' >= step_val
           /\ step_test' >= step_test
           /\ \A s \in States :
                 calls'[s] # calls[s] =>
                    /\ lastCall'.op = "step" /\ lastCall'.state = s
                    /\ lastCall'.step > StepCounter(s) ]_vars

\* C1 witness: the second invocation of the validation step, interleaved
\* with a training step, was handed step id 1
C1_Witness ==
    /\ lastCall.op = "step" /\ lastCall.state = "val" /\ lastCall.step = 1
    /\ calls["train"] >= 1
    /\ step_val = 1

\* C2: right after _epoch_end(state) returned, the Accuracy and the AUROC
\* accumulator of that split are in their initial state, and the two values it
\* logged are those of the batches that split's step accumulated since the
\* split's previous epoch end, and of no other batch.
C2_EpochEndResets ==
    (lastCall.op = "epoch_end" /\ lastCall.outcome = "returned") =>
        /\ acc[Key(lastCall.state)] = AccuracyInit
        /\ auc_roc[Key(lastCall.state)] = AUROCInit
        /\ Len(logged) = 2
        /\ logged[1].key = <<lastCall.state, "ACC">>
        /\ logged[1].value = AccuracyOfBatches(lastCall.batches)
        /\ logged[2].key = <<lastCall.state, "AUC_ROC">>
        /\ logged[2].value = AUROCCompute(lastCall.batches)

\* C2 witness: an epoch end that logged the metrics of a non-empty epoch of a
\* split whose earlier epoch had batches too
C2_Witness ==
    /\ lastCall.op = "epoch_end" /\ lastCall.outcome = "returned"
    /\ lastCall.batches # <<>>
    /\ lastCall.earlier

\* C9: a step or an epoch end changes the accumulators and the step counter
\* of the split it was called for only; those of the other two splits keep
\* their values.
C9_OtherSplitsUnchanged ==
    [][\A s \in States :
          ( \/ acc'[Key(s)] # acc[Key(s)]
            \/ auc_roc'[Key(s)] # auc_roc[Key(s)]
            \/ StepCounter(s)' # StepCounter(s) )
          => (lastCall'.op \in {"step", "epoch_end"} /\ lastCall'.state = s)]_vars

\* C9 witness: a validation epoch end returned in the middle of a training
\* epoch, whose accumulated batches are still there
C9_Witness ==
    /\ lastCall.op = "epoch_end" /\ lastCall.state = "val"
    /\ lastCall.outcome = "returned"
    /\ lastCall.batches # <<>>
    /\ auc_roc[Key("train")] # <<>>
    /\ acc[Key("train")].total > 0

\* C10: an epoch end called before any step of any split fails with the
\* missing attribute, logging and resetting nothing; one called after a step
\* logs every entry with the batch size of the most recent step, whichever
\* split that step belonged to.
C10_SharedBatchSize ==
    lastCall.op = "epoch_end" =>
        IF lastStep.state = "none"
        THEN /\ lastCall.outcome = "AttributeError"
             /\ logged = <<>>
             /\ \A k \in MetricKeys : acc[k] = AccuracyInit /\ auc_roc[k] = AUROCInit
        ELSE /\ lastCall.outcome = "returned"
             /\ Len(logged) = 2
             /\ \A i \in 1..Len(logged) : logged[i].batch_size = lastStep.size

\* C10 witness: the validation epoch end logged with the batch size of a
\* training step, which differs from that of the only validation step
C10_Witness ==
    /\ lastCall.op = "epoch_end" /\ lastCall.state = "val"
    /\ lastCall.outcome = "returned"
    /\ lastStep.state = "train"
    /\ Len(lastCall.batches) = 1
    /\ lastCall.batches[1].size # lastStep.size
    /\ logged[1].batch_size = lastStep.size

(***************************************************************************)
(* Claims about checkpoints and weights (checked under SpecWeights)        *)
(***************************************************************************)
\* C3: load_weights without a 'filter' hands load_state_dict no pretrained key
\* that the target model's state dict lacks, and every model key the
\* pretrained state does not overwrite keeps its value.
C3_DefaultFilterKeepsModelKeys ==
    (wCall.op = "load_weights" /\ wCall.filter.kind = "default") =>
        /\ \A k \in DOMAIN wCall.pretrained \ ModelKeys : k \notin DOMAIN handed[1]
        /\ \A k \in ModelKeys \ DOMAIN wCall.pretrained :
              state_dict[k] = wCall.before[k]

\* C4: after save_best_checkpoint(d, p), load_pretrained(d) resolves to d
\* joined with the name of p and leaves the model exactly as load_pretrained
\* of that file does (same parameters, same mapping, same outcome); and
\* _get_best_checkpoint_path(d) is p when p lies directly inside d.
C4_DirectoryLoadEqualsDirectLoad ==
    /\ (wCall.op = "load_pretrained" /\ wCall.path \in Dirs
            /\ savedPath[wCall.path] # <<>>) =>
          LET p == savedPath[wCall.path][1]
              file == wCall.path \o <<p[Len(p)]>>
              direct == LoadPretrainedResult(wCall.before, file,
                                             wCall.strict, wCall.filter)
          IN  /\ wCall.resolved = <<file>>
              /\ state_dict = direct.state_dict
              /\ wCall.outcome = direct.outcome
              /\ (file \in DOMAIN CheckpointFiles => handed = direct.handed)
    /\ \A d \in Dirs :
          (savedPath[d] # <<>> /\ PathParent(savedPath[d][1]) = d) =>
              GetBestCheckpointPath(d) = savedPath[d][1]

\* C4 witness: a directory load that restored parameters through a pointer
\* saved for a best-model path outside that directory
C4_Witness ==
    /\ wCall.op = "load_pretrained" /\ wCall.path \in Dirs
    /\ wCall.outcome = "returned"
    /\ savedPath[wCall.path] # <<>>
    /\ PathParent(savedPath[wCall.path][1]) # wCall.path
    /\ state_dict # wCall.before

(***************************************************************************)
(* Claims about the split loader (checked under SpecSplit)                 *)
(***************************************************************************)
\* the manifest positions (from 1) of the rows with the fold and, when one is
\* given, the split
Kept(fold, split) ==
    { i \in 1..Len(manifest) :
         /\ manifest[i].Fold = fold
         /\ (split = None \/ manifest[i].Split = split) }

\* the manifest position of a frame row: its label, or the old label that
\* reset_index moved to the column 'index'
PositionOf(e) == (IF e.index = Absent THEN e.label ELSE e.index[1]) + 1

\* C5: load_split(fold=k) with no fraction returns exactly the manifest rows
\* with Fold = k and, when a split s is given, Split = s, each once; with a
\* fraction the rows returned are rows of that filtered set.
C5_FoldSplitFilter ==
    (dCall.op = "load_split" /\ dCall.outcome = "returned") =>
        LET keep == Kept(dCall.fold, dCall.split)
        IN  /\ \A i \in 1..Len(dCall.df) :
                  /\ PositionOf(dCall.df[i]) \in keep
                  /\ dCall.df[i].row = manifest[PositionOf(dCall.df[i])]
            /\ dCall.fraction = Absent =>
                  /\ { PositionOf(dCall.df[i]) : i \in 1..Len(dCall.df) } = keep
                  /\ Len(dCall.df) = Cardinality(keep)

\* C5 witness: a fold-and-split call that returned some rows of the fold and
\* left out others of the same fold and rows of the other fold
C5_Witness ==
    /\ dCall.op = "load_split" /\ dCall.outcome = "returned"
    /\ dCall.fraction = Absent /\ dCall.split # None
    /\ Len(dCall.df) >= 1
    /\ Cardinality(Kept(dCall.fold, None)) > Len(dCall.df)
    /\ \E i \in 1..Len(manifest) : manifest[i].Fold # dCall.fold

SameArguments(c, d) ==
    c.fold = d.fold /\ c.split = d.split /\ c.fraction = d.fraction

\* C6: two load_split calls with the same fold, split and fraction return the
\* same rows in the same order; a sampled result has no row twice, only rows
\* of the filtered set, and f times the filtered count, rounded, many rows.
C6_SampleDeterministic ==
    /\ (dCall.op = "load_split" /\ prevSplit.op = "load_split"
            /\ SameArguments(dCall, prevSplit)) =>
          (dCall.outcome = prevSplit.outcome /\ dCall.df = prevSplit.df)
    /\ (dCall.op = "load_split" /\ dCall.outcome = "returned"
            /\ dCall.fraction # Absent) =>
          LET keep == Kept(dCall.fold, dCall.split)
              size == Len(dCall.df)
              num == dCall.fraction[1]
              den == dCall.fraction[2]
              diff == 2 * (size * den - num * Cardinality(keep))
          IN  /\ \A i, j \in 1..size :
                    i # j => PositionOf(dCall.df[i]) # PositionOf(dCall.df[j])
              /\ \A i \in 1..size : PositionOf(dCall.df[i]) \in keep
              /\ diff <= den /\ -diff <= den

\* C6 witness: the same sampled call made twice on a filtered set of at least
\* two rows, returning a proper non-empty part of it
C6_Witness ==
    /\ dCall.op = "load_split" /\ prevSplit.op = "load_split"
    /\ SameArguments(dCall, prevSplit)
    /\ dCall.fraction = <<1, 2>>
    /\ dCall.outcome = "returned"
    /\ Len(dCall.df) >= 1
    /\ Cardinality(Kept(dCall.fold, dCall.split)) > Len(dCall.df)

(***************************************************************************)
(* Claims about the dataset (checked under SpecDataset and SpecPipeline)   *)
(***************************************************************************)
\* the kept manifest positions in manifest row order
RECURSIVE KeptFrom(_, _, _)
KeptFrom(i, fold, split) ==
    IF i > Len(manifest) THEN <<>>
    ELSE (IF i \in Kept(fold, split) THEN <<i>> ELSE <<>>)
         \o KeptFrom(i + 1, fold, split)

\* C7 as stated: get(i) returns the i-th retained row in manifest row order,
\* whatever fold, split and fraction the dataset was built with.
C7_ManifestRowOrder ==
    (dCall.op = "__getitem__" /\ dCall.outcome = "returned") =>
        LET retained == { PositionOf(dataset.df[i]) : i \in 1..Len(dataset.df) }
            p == CHOOSE q \in retained :
                    Cardinality({ r \in retained : r < q }) = dCall.index
        IN  /\ dCall.sample.uid = manifest[p].UID
            /\ dCall.sample.target = manifest[p].Malignant

\* C7 amended: get(i) returns the UID and Malignant of the i-th row of the
\* frame load_split returned: without a fraction the i-th retained row in
\* manifest row order, with a fraction the row the seeded sample drew i-th;
\* length() is the number of those rows and an index from it on fails.
C7_FrameRowOrder ==
    (dCall.op = "__getitem__") =>
        LET kept == KeptFrom(1, dataset.fold, dataset.split)
            f == dataset.fraction
            size == IF f = Absent THEN Len(kept)
                    ELSE PyRound(f[1] * Len(kept), f[2])
            perm == Permutation(Len(kept), 0)
            p == IF f = Absent THEN kept[dCall.index + 1]
                 ELSE kept[perm[dCall.index + 1] + 1]
        IN  /\ DatasetLen = size
            /\ IF dCall.index < size
               THEN /\ dCall.outcome = "returned"
                    /\ dCall.sample.uid = manifest[p].UID
                    /\ dCall.sample.target = manifest[p].Malignant
               ELSE dCall.outcome = "IndexError"

\* C7 witness: an item of a sampled dataset that is not the row manifest
\* order puts at its index
C7_Witness ==
    /\ dCall.op = "__getitem__" /\ dCall.outcome = "returned"
    /\ dataset.fraction # Absent
    /\ dCall.index = 0
    /\ \E i \in 1..Len(dataset.df) :
          PositionOf(dataset.df[i]) < PositionOf(dataset.df[1])

\* the order of the stages, and the flag that enables each (Flip and
\* ZNormalization are unconditional)
StageOrder(cfg) ==
    << <<"Resize", cfg.image_resize>>,
       <<"Resample", cfg.resample>>,
       <<"Flip", TRUE>>,
       <<CropOrPad(cfg.random_center), cfg.image_crop>>,
       <<"ZNormalization", TRUE>>,
       <<"RandomAffine", cfg.random_rotate>>,
       <<"RandomFlip", cfg.flip>>,
       <<"RandomNegate", cfg.noise>>,
       <<"RandomNoise", cfg.noise>>,
       <<"ImageOrSubjectToTensor", cfg.to_tensor>> >>

RECURSIVE EnabledStages(_)
EnabledStages(order) ==
    IF order = <<>> THEN <<>>
    ELSE (IF order[1][2] THEN <<order[1][1]>> ELSE <<>>) \o EnabledStages(Tail(order))

\* C8: with no custom transform the pipeline has one stage per position of the
\* fixed order, the stage itself when its flag is on and the identity when it
\* is off; an item has had exactly the enabled stages applied, in that order,
\* so normalization follows the orientation flip and the crop/pad, and tensor
\* conversion, when enabled, comes last.
C8_StageOrder ==
    (dataset.built /\ dataset.cfg.transform = None) =>
        LET order == StageOrder(dataset.cfg)
        IN  /\ Len(dataset.transform) = Len(order)
            /\ \A i \in 1..Len(order) :
                  dataset.transform[i] =
                      IF order[i][2] THEN order[i][1] ELSE Identity
            /\ (dCall.op = "__getitem__" /\ dCall.outcome = "returned") =>
                  /\ dCall.sample.source.applied = EnabledStages(order)
                  /\ \A i, j \in 1..Len(dCall.sample.source.applied) :
                        LET a == dCall.sample.source.applied
                        IN  /\ (a[i] = "ZNormalization"
                                  /\ a[j] \in {"Flip", "CropOrPad",
                                               "CropOrPad(random_center)"}) => j < i
                            /\ a[i] = "ImageOrSubjectToTensor" => i = Len(a)

\* C8 witness: an item of a dataset with crop, noise and tensor conversion on
\* and resize, resample and rotation off
C8_Witness ==
    /\ dCall.op = "__getitem__" /\ dCall.outcome = "returned"
    /\ dataset.cfg.transform = None
    /\ dataset.cfg.image_crop /\ dataset.cfg.noise /\ dataset.cfg.to_tensor
    /\ ~dataset.cfg.image_resize /\ ~dataset.cfg.resample
    /\ ~dataset.cfg.random_rotate
    /\ Len(dCall.sample.source.applied) >= 6

====
